---- MODULE Spec2Model ----
(***************************************************************************)
(* Model of mergeProfiles (profile-logic/merge-compare), the function that *)
(* merges the selected threads of several profiles into one profile.       *)
(*                                                                         *)
(* JavaScript values that can be null, NaN or infinite are modelled as     *)
(* tagged pairs <<tag, n>>; array indices are 0-based as in the source,    *)
(* and stored in TLA+ sequences at position index + 1.                     *)
(***************************************************************************)
EXTENDS Integers, Sequences, FiniteSets, TLC

VARIABLES
  profiles,          \* the `profiles` argument; its threads are mutated in place
  profileStates,     \* the `profileStates` argument; committedRanges is popped in place
  profiles0,         \* the value of `profiles` when mergeProfiles was called
  profileStates0,    \* the value of `profileStates` when mergeProfiles was called
  pc,                \* "start", "loop", "threw" or "done"
  i,                 \* the loop counter of the for loop
  resultProfile,     \* the local resultProfile
  translationMapsForCategories,
  transformStacks,
  implementationFilters,
  error,             \* the Error thrown, or null
  returned           \* the value returned, or null

vars == <<profiles, profileStates, profiles0, profileStates0, pc, i,
          resultProfile, translationMapsForCategories, transformStacks,
          implementationFilters, error, returned>>

----------------------------------------------------------------------------
(* Bounds of the model *)

MaxProfiles == 2
MaxCats == 4
MaxTime == 3

----------------------------------------------------------------------------
(* JavaScript values *)

null == <<"null", 0>>
NaN == <<"NaN", 0>>
Infinity == <<"Infinity", 0>>
NegInfinity == <<"-Infinity", 0>>
Num(n) == <<"number", n>>
IsNum(v) == v[1] = "number"

\* a + b on JavaScript numbers
Add(a, b) ==
  IF a = NaN \/ b = NaN THEN NaN
  ELSE IF IsNum(a) /\ IsNum(b) THEN Num(a[2] + b[2])
  ELSE IF IsNum(a) THEN b
  ELSE IF IsNum(b) THEN a
  ELSE IF a = b THEN a
  ELSE NaN

\* -a on a JavaScript number
Neg(a) ==
  IF IsNum(a) THEN Num(0 - a[2])
  ELSE IF a = Infinity THEN NegInfinity
  ELSE IF a = NegInfinity THEN Infinity
  ELSE NaN

\* a < b on JavaScript numbers (false when either is NaN)
Lt(a, b) ==
  IF a = NaN \/ b = NaN THEN FALSE
  ELSE IF IsNum(a) /\ IsNum(b) THEN a[2] < b[2]
  ELSE IF a = b THEN FALSE
  ELSE a = NegInfinity \/ b = Infinity

\* a <= b on JavaScript numbers (false when either is NaN)
Le(a, b) == a # NaN /\ b # NaN /\ (a = b \/ Lt(a, b))

\* Math.min(a, b)
MathMin2(a, b) ==
  IF a = NaN \/ b = NaN THEN NaN
  ELSE IF Lt(b, a) THEN b ELSE a

\* Math.max(a, b)
MathMax2(a, b) ==
  IF a = NaN \/ b = NaN THEN NaN
  ELSE IF Lt(a, b) THEN b ELSE a

\* Math.min(...values): Infinity when there is no argument
RECURSIVE MathMin(_)
MathMin(values) ==
  IF Len(values) = 0 THEN Infinity
  ELSE MathMin2(Head(values), MathMin(Tail(values)))

\* `${n}` for a non-negative integer n
NumberToString(n) == ToString(n)

----------------------------------------------------------------------------
(* mergeCategories *)

\* Mutant of MergeCategoryList: a name already inserted is inserted again
RECURSIVE MergeCategoryListNoDedup(_, _, _)
MergeCategoryListNoDedup(categories, k, acc) ==
  IF k >= Len(categories) THEN acc
  ELSE MergeCategoryListNoDedup(categories, k + 1,
         [newCategories |-> Append(acc.newCategories, categories[k + 1]),
          insertedCategories |-> acc.insertedCategories,
          translationMap |->
            acc.translationMap @@ (k :> Len(acc.newCategories))])

\* The callback of the inner categories.forEach, applied to the categories
\* from 0-based index k on. acc holds newCategories, insertedCategories and
\* the translationMap of the list being processed.
RECURSIVE MergeCategoryList(_, _, _)
MergeCategoryList(categories, k, acc) ==
  IF k >= Len(categories) THEN acc
  ELSE
    LET name == categories[k + 1].name
    IN IF name \in DOMAIN acc.insertedCategories
       THEN MergeCategoryList(categories, k + 1,
              [acc EXCEPT !.translationMap =
                 @ @@ (k :> acc.insertedCategories[name])])
       ELSE MergeCategoryList(categories, k + 1,
              [newCategories |-> Append(acc.newCategories, categories[k + 1]),
               insertedCategories |->
                 acc.insertedCategories @@ (name :> Len(acc.newCategories)),
               translationMap |->
                 acc.translationMap @@ (k :> Len(acc.newCategories))])

\* The callback of the outer categoriesPerThread.forEach, applied to the
\* lists from 0-based index p on.
RECURSIVE MergeCategoryLists(_, _, _)
MergeCategoryLists(categoriesPerThread, p, acc) ==
  IF p >= Len(categoriesPerThread) THEN acc
  ELSE
    LET one == MergeCategoryList(categoriesPerThread[p + 1], 0,
                 [newCategories |-> acc.newCategories,
                  insertedCategories |-> acc.insertedCategories,
                  translationMap |-> <<>>])
    IN MergeCategoryLists(categoriesPerThread, p + 1,
         [newCategories |-> one.newCategories,
          insertedCategories |-> one.insertedCategories,
          translationMaps |-> Append(acc.translationMaps, one.translationMap)])

mergeCategories(categoriesPerThread) ==
  LET acc == MergeCategoryLists(categoriesPerThread, 0,
               [newCategories |-> <<>>,
                insertedCategories |-> <<>>,
                translationMaps |-> <<>>])
  IN [categories |-> acc.newCategories,
      translationMaps |-> acc.translationMaps]

----------------------------------------------------------------------------
(* adjustCategories and adjustNullableCategories *)

\* The text of the Error thrown for a category missing from the map
CategoryNotFoundMessage(category) ==
  "Category with index " \o NumberToString(category)
    \o " hasn't been found in the translation map."

\* Mutant of adjustCategories: an index the map does not hold becomes 0
adjustCategoriesDefault(categories, translationMap) ==
  [threw |-> FALSE, index |-> 0,
   value |-> [j \in 1..Len(categories) |->
                IF categories[j] \in DOMAIN translationMap
                THEN translationMap[categories[j]] ELSE 0]]

\* categories.map(...) of adjustCategories: either the mapped array, or
\* the throw raised at the first element the map does not hold.
adjustCategories(categories, translationMap) ==
  LET missing == {j \in 1..Len(categories) :
                    categories[j] \notin DOMAIN translationMap}
  IN IF missing # {}
     THEN LET j == CHOOSE m \in missing : \A o \in missing : m <= o
          IN [threw |-> TRUE, index |-> categories[j], value |-> <<>>]
     ELSE [threw |-> FALSE, index |-> 0,
           value |-> [j \in 1..Len(categories) |->
                        translationMap[categories[j]]]]

\* categories.map(...) of adjustNullableCategories
adjustNullableCategories(categories, translationMap) ==
  LET missing == {j \in 1..Len(categories) :
                    /\ categories[j] # null
                    /\ categories[j][2] \notin DOMAIN translationMap}
  IN IF missing # {}
     THEN LET j == CHOOSE m \in missing : \A o \in missing : m <= o
          IN [threw |-> TRUE, index |-> categories[j][2], value |-> <<>>]
     ELSE [threw |-> FALSE, index |-> 0,
           value |-> [j \in 1..Len(categories) |->
                        IF categories[j] = null THEN null
                        ELSE Num(translationMap[categories[j][2]])]]

----------------------------------------------------------------------------
(* Collaborators imported from process-profile and profile-data *)

\* adjustSampleTimestamps(samples, delta): every sample time plus delta
adjustSampleTimestamps(samples, delta) ==
  [samples EXCEPT !.time = [j \in 1..Len(@) |-> Add(@[j], delta)]]

\* adjustMarkerTimestamps(markers, delta): every marker time plus delta
adjustMarkerTimestamps(markers, delta) ==
  [markers EXCEPT !.time = [j \in 1..Len(@) |-> Add(@[j], delta)]]

\* getTimeRangeForThread(thread, interval): the thread's own time bounds,
\* the interval added at the end
getTimeRangeForThread(thread, interval) ==
  IF Len(thread.samples.time) = 0
  THEN [start |-> Infinity, end |-> NegInfinity]
  ELSE [start |-> thread.samples.time[1],
        end |-> Add(thread.samples.time[Len(thread.samples.time)], interval)]

\* getTimeRangeIncludingAllThreads(profile), folded over the threads from
\* 0-based index k on
RECURSIVE TimeRangeOfThreadsFrom(_, _, _)
TimeRangeOfThreadsFrom(profile, k, completeRange) ==
  IF k >= Len(profile.threads) THEN completeRange
  ELSE
    LET threadRange ==
          getTimeRangeForThread(profile.threads[k + 1], profile.meta.interval)
    IN TimeRangeOfThreadsFrom(profile, k + 1,
         [start |-> MathMin2(completeRange.start, threadRange.start),
          end |-> MathMax2(completeRange.end, threadRange.end)])

getTimeRangeIncludingAllThreads(profile) ==
  TimeRangeOfThreadsFrom(profile, 0,
    [start |-> Infinity, end |-> NegInfinity])

\* Whether time t lies in the closed-open interval [rangeStart, rangeEnd)
InRange(t, rangeStart, rangeEnd) == Le(rangeStart, t) /\ Lt(t, rangeEnd)

\* filterThreadSamplesToRange(thread, rangeStart, rangeEnd): a new thread
\* with the samples and markers inside the range, all other fields kept
filterThreadSamplesToRange(thread, rangeStart, rangeEnd) ==
  [thread EXCEPT
     !.samples.time = SelectSeq(@, LAMBDA t : InRange(t, rangeStart, rangeEnd)),
     !.markers.time = SelectSeq(@, LAMBDA t : InRange(t, rangeStart, rangeEnd))]

\* getEmptyProfile(): no thread, no category
getEmptyProfile ==
  [meta |-> [interval |-> Num(1), categories |-> <<>>], threads |-> <<>>]

----------------------------------------------------------------------------
(* mergeProfiles *)

\* profileStates[i].profileSpecific
ProfileSpecific(k) == profileStates[k + 1].profileSpecific

\* const selectedThreadIndex = profileSpecific.selectedThread
SelectedThreadIndex(k) == ProfileSpecific(k).selectedThread

\* profile.threads[selectedThreadIndex]
SelectedThread(k) == profiles[k + 1].threads[SelectedThreadIndex(k)[2] + 1]

\* Mutant of AdjustedStack: the translation map of the first profile is used
AdjustedStackFirstMap(k) ==
  adjustCategories(SelectedThread(k).stackTable.category,
                   translationMapsForCategories[1])

\* adjustCategories(thread.stackTable.category, translationMapsForCategories[i])
AdjustedStack(k) ==
  adjustCategories(SelectedThread(k).stackTable.category,
                   translationMapsForCategories[k + 1])

\* adjustNullableCategories(thread.frameTable.category, translationMapsForCategories[i])
AdjustedFrame(k) ==
  adjustNullableCategories(SelectedThread(k).frameTable.category,
                           translationMapsForCategories[k + 1])

\* the thread once both category columns are rewritten (in place)
WithCategories(thread, stackCategory, frameCategory) ==
  [thread EXCEPT !.stackTable.category = stackCategory,
                 !.frameTable.category = frameCategory]

\* const zeroAt = getTimeRangeIncludingAllThreads(profile).start
ZeroAt(profile) == getTimeRangeIncludingAllThreads(profile).start

\* Mutant of PopCommittedRange: the last entry is read but not removed
PeekCommittedRange(committedRanges) ==
  IF Len(committedRanges) = 0
  THEN [popped |-> FALSE, range |-> [start |-> NaN, end |-> NaN],
        rest |-> committedRanges]
  ELSE [popped |-> TRUE, range |-> committedRanges[Len(committedRanges)],
        rest |-> committedRanges]

\* Mutant of PopCommittedRange: shift() instead of pop()
ShiftCommittedRange(committedRanges) ==
  IF Len(committedRanges) = 0
  THEN [popped |-> FALSE, range |-> [start |-> NaN, end |-> NaN],
        rest |-> committedRanges]
  ELSE [popped |-> TRUE, range |-> committedRanges[1],
        rest |-> Tail(committedRanges)]

\* profileSpecific.committedRanges && profileSpecific.committedRanges.pop():
\* the popped entry (undefined when the array is empty) and what is left
PopCommittedRange(committedRanges) ==
  IF Len(committedRanges) = 0
  THEN [popped |-> FALSE, range |-> [start |-> NaN, end |-> NaN],
        rest |-> committedRanges]
  ELSE [popped |-> TRUE, range |-> committedRanges[Len(committedRanges)],
        rest |-> SubSeq(committedRanges, 1, Len(committedRanges) - 1)]

\* thread = committedRange ? filterThreadSamplesToRange(...) : thread
FilterToCommittedRange(thread, pop, zeroAt) ==
  IF pop.popped
  THEN filterThreadSamplesToRange(thread,
         Add(pop.range.start, zeroAt), Add(pop.range.end, zeroAt))
  ELSE thread

\* Mutant of NewPid: the 0-based index is written
NewPidZeroBased(thread, k) ==
  thread.pid \o " from profile " \o NumberToString(k)

\* thread.pid = `${thread.pid} from profile ${i + 1}`
NewPid(thread, k) == thread.pid \o " from profile " \o NumberToString(k + 1)

\* thread.processName = `Profile ${i + 1}: ${thread.processName || thread.name}`
NewProcessName(thread, k) ==
  "Profile " \o NumberToString(k + 1) \o ": "
    \o (IF thread.processName # "" THEN thread.processName ELSE thread.name)

\* const startTimeAdjustment = -thread.samples.time[0]
\* (samples.time[0] is undefined when there is no sample, and -undefined is NaN)
StartTimeAdjustment(thread) ==
  IF Len(thread.samples.time) = 0 THEN NaN ELSE Neg(thread.samples.time[1])

\* the shifts of the block "We adjust the various times"
AdjustTimes(thread, startTimeAdjustment) ==
  [thread EXCEPT
     !.samples = adjustSampleTimestamps(@, startTimeAdjustment),
     !.markers = adjustMarkerTimestamps(@, startTimeAdjustment),
     !.registerTime = Add(@, startTimeAdjustment),
     !.processStartupTime = Add(@, startTimeAdjustment),
     !.processShutdownTime =
        IF @ # null THEN Add(@, startTimeAdjustment) ELSE @,
     !.unregisterTime =
        IF @ # null THEN Add(@, startTimeAdjustment) ELSE @]

\* Mutant of EndInterval: the interval of the merged profile is used
EndIntervalOfResult(profile) == resultProfile.meta.interval

\* the interval handed to getTimeRangeForThread
EndInterval(profile) == profile.meta.interval

\* the guard of the block that sets unregisterTime
NeedsUnregisterTime(thread) ==
  thread.processShutdownTime = null /\ thread.unregisterTime = null

\* if (processShutdownTime === null && unregisterTime === null) unregisterTime = ...
SetUnregisterTime(thread, profile) ==
  IF NeedsUnregisterTime(thread)
  THEN [thread EXCEPT !.unregisterTime =
          getTimeRangeForThread(thread, EndInterval(profile)).end]
  ELSE thread

\* the identity and time rewrites of one loop iteration, applied to the
\* thread that came out of the range filter
Normalize(thread, profile, k) ==
  LET renamed == [thread EXCEPT !.pid = NewPid(thread, k),
                                !.processName = NewProcessName(thread, k)]
      shifted == AdjustTimes(renamed, StartTimeAdjustment(renamed))
  IN SetUnregisterTime(shifted, profile)

\* Mutant of ResultInterval: the interval of the first profile is taken
ResultIntervalOfFirst(ps) ==
  IF Len(ps) = 0 THEN Infinity ELSE ps[1].meta.interval

\* resultProfile.meta.interval = Math.min(...profiles.map(p => p.meta.interval))
ResultInterval(ps) == MathMin([k \in 1..Len(ps) |-> ps[k].meta.interval])

\* Lines 41-57: the result profile, the merged categories, the empty outputs
MergeStart ==
  /\ pc = "start"
  /\ LET merged == mergeCategories(
                     [k \in 1..Len(profiles) |-> profiles[k].meta.categories])
     IN /\ resultProfile' =
             [getEmptyProfile EXCEPT
                !.meta.interval = ResultInterval(profiles),
                !.meta.categories = merged.categories]
        /\ translationMapsForCategories' = merged.translationMaps
  /\ transformStacks' = <<>>
  /\ implementationFilters' = <<>>
  /\ i' = 0
  /\ pc' = "loop"
  /\ UNCHANGED <<profiles, profileStates, profiles0, profileStates0, error,
                 returned>>

\* Mutant of SelectedTransforms: the transforms of the first thread
TransformsOfFirstThread(k) == ProfileSpecific(k).transforms[1]

\* profileSpecific.transforms[selectedThreadIndex]
SelectedTransforms(k) ==
  ProfileSpecific(k).transforms[SelectedThreadIndex(k)[2] + 1]

\* transformStacks[i] = ...; implementationFilters.push(...)
CaptureState(k) ==
  /\ transformStacks' = transformStacks @@ (k :> SelectedTransforms(k))
  /\ implementationFilters' =
       Append(implementationFilters, ProfileSpecific(k).implementation)

\* Lines 62-64: throw when no thread is selected
ThrowNoThreadSelected ==
  /\ pc = "loop"
  /\ i < Len(profileStates)
  /\ SelectedThreadIndex(i) = null
  /\ error' = [name |-> "NoThreadSelected", index |-> i,
               message |-> "No thread has been selected in profile "
                             \o NumberToString(i)]
  /\ pc' = "threw"
  /\ UNCHANGED <<profiles, profileStates, profiles0, profileStates0, i,
                 resultProfile, translationMapsForCategories, transformStacks,
                 implementationFilters, returned>>

\* Lines 71-74: adjustCategories throws, nothing has been assigned yet
ThrowStackCategory ==
  /\ pc = "loop"
  /\ i < Len(profileStates)
  /\ SelectedThreadIndex(i) # null
  /\ AdjustedStack(i).threw
  /\ CaptureState(i)
  /\ error' = [name |-> "CategoryNotFound", index |-> AdjustedStack(i).index,
               message |-> CategoryNotFoundMessage(AdjustedStack(i).index)]
  /\ pc' = "threw"
  /\ UNCHANGED <<profiles, profileStates, profiles0, profileStates0, i,
                 resultProfile, translationMapsForCategories, returned>>

\* Lines 75-78: adjustNullableCategories throws, after stackTable.category
\* of the input thread has been assigned
ThrowFrameCategory ==
  /\ pc = "loop"
  /\ i < Len(profileStates)
  /\ SelectedThreadIndex(i) # null
  /\ ~AdjustedStack(i).threw
  /\ AdjustedFrame(i).threw
  /\ CaptureState(i)
  /\ profiles' = [profiles EXCEPT
       ![i + 1].threads[SelectedThreadIndex(i)[2] + 1].stackTable.category =
          AdjustedStack(i).value]
  /\ error' = [name |-> "CategoryNotFound", index |-> AdjustedFrame(i).index,
               message |-> CategoryNotFoundMessage(AdjustedFrame(i).index)]
  /\ pc' = "threw"
  /\ UNCHANGED <<profileStates, profiles0, profileStates0, i,
                 resultProfile, translationMapsForCategories, returned>>

\* Lines 59-131: one full iteration of the loop
MergeThread ==
  /\ pc = "loop"
  /\ i < Len(profileStates)
  /\ SelectedThreadIndex(i) # null
  /\ ~AdjustedStack(i).threw
  /\ ~AdjustedFrame(i).threw
  /\ CaptureState(i)
  /\ LET sel == SelectedThreadIndex(i)[2] + 1
         recategorized == WithCategories(SelectedThread(i),
                            AdjustedStack(i).value, AdjustedFrame(i).value)
         profile == [profiles[i + 1] EXCEPT !.threads[sel] = recategorized]
         zeroAt == ZeroAt(profile)
         pop == PopCommittedRange(ProfileSpecific(i).committedRanges)
         filtered == FilterToCommittedRange(recategorized, pop, zeroAt)
         thread == Normalize(filtered, profile, i)
     IN /\ profileStates' = [profileStates EXCEPT
             ![i + 1].profileSpecific.committedRanges = pop.rest]
        \* the filter returns a new thread: the input thread then keeps its
        \* identity and times; otherwise `thread` is the input thread itself
        /\ profiles' = [profiles EXCEPT ![i + 1].threads[sel] =
             IF pop.popped THEN recategorized ELSE thread]
        /\ resultProfile' = [resultProfile EXCEPT
             !.threads = Append(@, thread)]
  /\ i' = i + 1
  /\ UNCHANGED <<profiles0, profileStates0, pc, translationMapsForCategories,
                 error, returned>>

\* Line 133: return { profile, implementationFilters, transformStacks }
Return ==
  /\ pc = "loop"
  /\ i >= Len(profileStates)
  /\ returned' = [profile |-> resultProfile,
                  implementationFilters |-> implementationFilters,
                  transformStacks |-> transformStacks]
  /\ pc' = "done"
  /\ UNCHANGED <<profiles, profileStates, profiles0, profileStates0, i,
                 resultProfile, translationMapsForCategories, transformStacks,
                 implementationFilters, error>>

Next ==
  \/ MergeStart
  \/ ThrowNoThreadSelected
  \/ ThrowStackCategory
  \/ ThrowFrameCategory
  \/ MergeThread
  \/ Return

----------------------------------------------------------------------------
(* Inputs of mergeProfiles *)

\* The strictly increasing sequence of the elements of a set of integers
RECURSIVE SortedSeq(_)
SortedSeq(S) ==
  IF S = {} THEN <<>>
  ELSE LET m == CHOOSE x \in S : \A y \in S : x <= y
       IN <<m>> \o SortedSeq(S \ {m})

Times(ts) == [j \in 1..Len(ts) |-> Num(ts[j])]

DefaultThread ==
  [pid |-> "1234", processName |-> "Web Content", name |-> "GeckoMain",
   registerTime |-> Num(1), unregisterTime |-> null,
   processStartupTime |-> Num(0), processShutdownTime |-> null,
   stackTable |-> [category |-> <<0>>],
   frameTable |-> [category |-> <<null, Num(0)>>],
   samples |-> [time |-> Times(<<5, 6>>)],
   markers |-> [time |-> Times(<<5>>)]]

DefaultCategories == <<[name |-> "Other", color |-> "grey"]>>

DefaultProfile ==
  [meta |-> [interval |-> Num(1), categories |-> DefaultCategories],
   threads |-> <<DefaultThread>>]

DefaultState ==
  [profileSpecific |->
     [selectedThread |-> Num(0), transforms |-> << <<>> >>,
      implementation |-> "combined", committedRanges |-> <<>>]]

DefaultInput == [profile |-> DefaultProfile, state |-> DefaultState]

\* An input whose view-state has no selected thread
NoSelectionInput ==
  [DefaultInput EXCEPT !.state.profileSpecific.selectedThread = null]

\* An input whose stack table refers to a category its profile does not have
BadStackInput ==
  [DefaultInput EXCEPT
     !.profile.threads[1].stackTable.category = <<0, MaxCats + 1, MaxCats + 2>>]

\* An input whose frame table refers to a category its profile does not have
BadFrameInput ==
  [DefaultInput EXCEPT
     !.profile.threads[1].frameTable.category =
        <<null, Num(0), Num(MaxCats + 1), Num(MaxCats + 2)>>]

FailingInputs == {NoSelectionInput, BadStackInput, BadFrameInput}

(* Inputs that vary the category lists *)

CategoryNames == {"A", "B", "C"}

\* A profile whose categories have the given names, and whose selected
\* thread refers to every one of them from both tables; colour tells the
\* category objects of different profiles apart
CategoryInput(names, colour) ==
  [DefaultInput EXCEPT
     !.profile.meta.categories =
        [j \in 1..Len(names) |-> [name |-> names[j], color |-> <<colour, j>>]],
     !.profile.threads[1].stackTable.category =
        [j \in 1..Len(names) |-> Len(names) - j],
     !.profile.threads[1].frameTable.category =
        <<null>> \o [j \in 1..Len(names) |-> Num(j - 1)]]

\* The ways to cut a list of the given length into n consecutive parts
Cuts(n, length) ==
  {c \in [1..(n - 1) -> 0..length] : \A a \in 1..(n - 2) : c[a] <= c[a + 1]}

\* The n = Len(cuts) + 1 parts of the list of names
Parts(names, cuts) ==
  [p \in 1..(Len(cuts) + 1) |->
     SubSeq(names, (IF p = 1 THEN 0 ELSE cuts[p - 1]) + 1,
                   IF p = Len(cuts) + 1 THEN Len(names) ELSE cuts[p])]

\* The call whose profiles have the parts of the list of names as their
\* categories
CategoryCall(names, cuts) ==
  [p \in 1..(Len(cuts) + 1) |-> CategoryInput(Parts(names, cuts)[p], p)]

(* Inputs that vary the times, the committed ranges and the end times *)

Range(start, end) == [start |-> Num(start), end |-> Num(end)]

CommittedRangeStacks == {<<>>, <<Range(0, 2)>>, <<Range(0, 2), Range(2, 3)>>}

\* A thread that is not selected: without samples, or with one sample
OtherThreads ==
  {[DefaultThread EXCEPT !.name = "Compositor", !.samples.time = Times(ts),
                         !.markers.time = <<>>] :
     ts \in {<<>>, <<1>>, <<MaxTime + 2>>}}

TimedInputs ==
  {[profile |->
      [meta |-> [interval |-> Num(2), categories |-> DefaultCategories],
       threads |->
         <<other,
           [DefaultThread EXCEPT
              !.samples.time = Times(SortedSeq(sampleTimes)),
              !.markers.time = Times(<<1, 3>>),
              !.unregisterTime = unregisterTime,
              !.processShutdownTime = processShutdownTime]>>],
    state |->
      [DefaultState EXCEPT
         !.profileSpecific.selectedThread = Num(1),
         !.profileSpecific.transforms = << <<>>, <<>> >>,
         !.profileSpecific.committedRanges = committedRanges]] :
     other \in OtherThreads,
     sampleTimes \in SUBSET (2..(MaxTime + 1)),
     committedRanges \in CommittedRangeStacks,
     unregisterTime \in {null, Num(7)},
     processShutdownTime \in {null, Num(8)}}

\* The inputs that follow the first one in the calls that vary the times
LaterInputs == {DefaultInput} \cup FailingInputs

(* Inputs that vary the identities, the selection and the view-state *)

IdentityInputs ==
  {[profile |->
      [meta |-> [interval |-> Num(setting[1]), categories |-> DefaultCategories],
       threads |->
         <<[DefaultThread EXCEPT !.pid = pid, !.processName = ""],
           [DefaultThread EXCEPT !.pid = pid, !.name = "Compositor",
                                 !.samples.time = Times(<<7>>)]>>],
    state |->
      [profileSpecific |->
         [selectedThread |-> selectedThread,
          transforms |->
            [j \in 1..2 |-> <<[type |-> "focus-function", funcIndex |-> j,
                               implementation |-> setting[2]]>>],
          implementation |-> setting[2],
          committedRanges |-> <<>>]]] :
     pid \in {"1234", "1234 from profile 2"},
     selectedThread \in {null, Num(0), Num(1)},
     setting \in {<<1, "js">>, <<2, "combined">>, <<2, "cpp">>}}
    \cup {BadStackInput, BadFrameInput}

\* The state when mergeProfiles is entered with the given inputs
Called(inputs) ==
  /\ profiles = [k \in 1..Len(inputs) |-> inputs[k].profile]
  /\ profileStates = [k \in 1..Len(inputs) |-> inputs[k].state]
  /\ profiles0 = profiles
  /\ profileStates0 = profileStates
  /\ pc = "start"
  /\ i = 0
  /\ resultProfile = getEmptyProfile
  /\ translationMapsForCategories = <<>>
  /\ transformStacks = <<>>
  /\ implementationFilters = <<>>
  /\ error = null
  /\ returned = null

\* Calls with at most MaxProfiles profiles that have at most MaxCats
\* categories between them, the last profile possibly one that makes the
\* call fail; and the call without any profile
InitCategories ==
  \/ Called(<<>>)
  \/ \E n \in 1..MaxProfiles, m \in 0..MaxCats :
       \E names \in [1..m -> CategoryNames], cuts \in Cuts(n, m) :
         Called(CategoryCall(names, cuts))
  \/ \E n \in 0..(MaxProfiles - 1), m \in 0..MaxCats :
       \E names \in [1..m -> CategoryNames], cuts \in Cuts(n, m),
          failing \in FailingInputs :
         /\ n = 0 => m = 0
         /\ Called((IF n = 0 THEN <<>> ELSE CategoryCall(names, cuts))
                     \o <<failing>>)

\* Calls whose first input varies the times, followed by at most
\* MaxProfiles - 1 other inputs
InitTimes ==
  \E first \in TimedInputs, n \in 0..(MaxProfiles - 1) :
    \E rest \in [1..n -> LaterInputs] : Called(<<first>> \o rest)

\* Calls with at most MaxProfiles inputs that vary the identities
InitIdentities ==
  \E n \in 0..MaxProfiles :
    \E inputs \in [1..n -> IdentityInputs] : Called(inputs)

Init == InitCategories \/ InitTimes \/ InitIdentities

Spec == Init /\ [][Next]_vars
SpecCategories == InitCategories /\ [][Next]_vars
SpecTimes == InitTimes /\ [][Next]_vars
SpecIdentities == InitIdentities /\ [][Next]_vars

----------------------------------------------------------------------------
(* Vocabulary of the properties *)

\* The number of inputs of the call
NumInputs == Len(profileStates0)

\* The selected thread of input k (1-based) as it was when the call was made
InputThread(k) ==
  profiles0[k].threads[profileStates0[k].profileSpecific.selectedThread[2] + 1]

\* The k-th thread of the returned profile
OutputThread(k) == returned.profile.threads[k]

\* The categories of input k as they were when the call was made
InputCategories(k) == profiles0[k].meta.categories

\* The names of a category list, in order
NamesOf(categories) == [j \in 1..Len(categories) |-> categories[j].name]

\* Whether <<p, j>> is the first place, over the inputs taken in order,
\* where the name of the j-th category of input p occurs
FirstSeen(p, j) ==
  \A q \in 1..p : \A m \in 1..Len(InputCategories(q)) :
    (q < p \/ m < j) =>
      InputCategories(q)[m].name # InputCategories(p)[j].name

----------------------------------------------------------------------------
(* C1 *)

\* C1: after a successful merge every entry of each output thread's
\* stackTable.category, and every non-null entry of its frameTable.category,
\* is a valid index into the merged categories and designates a category of
\* the same name as the entry designated in its source profile.
C1_CategoryIndicesPreserved ==
  pc = "done" =>
    \A k \in 1..Len(returned.profile.threads) :
      LET merged == returned.profile.meta.categories
          out == OutputThread(k)
          in == InputThread(k)
      IN /\ Len(out.stackTable.category) = Len(in.stackTable.category)
         /\ Len(out.frameTable.category) = Len(in.frameTable.category)
         /\ \A j \in 1..Len(out.stackTable.category) :
              /\ out.stackTable.category[j] \in 0..(Len(merged) - 1)
              /\ merged[out.stackTable.category[j] + 1].name
                   = InputCategories(k)[in.stackTable.category[j] + 1].name
         /\ \A j \in 1..Len(out.frameTable.category) :
              out.frameTable.category[j] # null =>
                /\ in.frameTable.category[j] # null
                /\ out.frameTable.category[j][2] \in 0..(Len(merged) - 1)
                /\ merged[out.frameTable.category[j][2] + 1].name
                     = InputCategories(k)[in.frameTable.category[j][2] + 1].name

\* C1 witness: a merge of two inputs has returned, and an entry of the
\* second thread's stack table and one of its frame table were renumbered.
C1_Witness ==
  /\ pc = "done"
  /\ Len(returned.profile.threads) = 2
  /\ \E j \in 1..Len(OutputThread(2).stackTable.category) :
       OutputThread(2).stackTable.category[j]
         # InputThread(2).stackTable.category[j]
  /\ \E j \in 1..Len(OutputThread(2).frameTable.category) :
       /\ OutputThread(2).frameTable.category[j] # null
       /\ OutputThread(2).frameTable.category[j]
            # InputThread(2).frameTable.category[j]

----------------------------------------------------------------------------
(* C2 *)

\* C2: mergeCategories returns every name exactly once, in first-seen
\* order, each entry being the first-seen category object of its name, and
\* one translation table per input, defined on exactly the indices of that
\* input's list and sending each index to the merged index of the category
\* of the same name; [A,B] and [B,C] give [A,B,C], {0->0,1->1} and
\* {0->1,1->2}; the merged list is no longer than the inputs together.
C2_MergeCategories ==
  pc # "start" =>
    LET merged == resultProfile.meta.categories
        maps == translationMapsForCategories
        places == {pj \in (1..NumInputs) \X (1..MaxCats + 1) :
                     pj[2] <= Len(InputCategories(pj[1]))}
        firsts == {pj \in places : FirstSeen(pj[1], pj[2])}
        Before(a, b) == a[1] < b[1] \/ (a[1] = b[1] /\ a[2] < b[2])
    IN /\ \A a, b \in 1..Len(merged) :
            merged[a].name = merged[b].name => a = b
       /\ Len(merged) = Cardinality(firsts)
       /\ \A pj \in firsts :
            LET m == 1 + Cardinality({o \in firsts : Before(o, pj)})
            IN merged[m] = InputCategories(pj[1])[pj[2]]
       /\ Len(maps) = Len(profiles0)
       /\ \A p \in 1..Len(profiles0) :
            /\ DOMAIN maps[p] = 0..(Len(InputCategories(p)) - 1)
            /\ \A j \in DOMAIN maps[p] :
                 /\ maps[p][j] \in 0..(Len(merged) - 1)
                 /\ merged[maps[p][j] + 1].name = InputCategories(p)[j + 1].name
       /\ Len(merged) <= Cardinality(places)
       /\ (/\ NumInputs = 2
           /\ NamesOf(InputCategories(1)) = <<"A", "B">>
           /\ NamesOf(InputCategories(2)) = <<"B", "C">>)
          => /\ NamesOf(merged) = <<"A", "B", "C">>
             /\ maps[1] = (0 :> 0) @@ (1 :> 1)
             /\ maps[2] = (0 :> 1) @@ (1 :> 2)

\* C2 witness: the categories [A,B] and [B,C] have been merged.
C2_Witness ==
  /\ pc # "start"
  /\ NumInputs = 2
  /\ NamesOf(InputCategories(1)) = <<"A", "B">>
  /\ NamesOf(InputCategories(2)) = <<"B", "C">>
  /\ Len(resultProfile.meta.categories) = 3

----------------------------------------------------------------------------
(* C3 *)

\* The first entry of a category column that the translation table does not
\* hold (null entries are skipped), or null when every entry is held
RECURSIVE FirstUnmapped(_, _)
FirstUnmapped(column, map) ==
  IF Len(column) = 0 THEN null
  ELSE IF Head(column) = null THEN FirstUnmapped(Tail(column), map)
  ELSE IF Head(column)[2] \notin DOMAIN map THEN Head(column)
  ELSE FirstUnmapped(Tail(column), map)

\* The first entry of the stack column, then of the frame column, of input
\* k's selected thread that input k's translation table does not hold
FirstUnmappedOfInput(k) ==
  LET map == translationMapsForCategories[k]
      stack == [j \in 1..Len(InputThread(k).stackTable.category) |->
                  Num(InputThread(k).stackTable.category[j])]
  IN IF FirstUnmapped(stack, map) # null THEN FirstUnmapped(stack, map)
     ELSE FirstUnmapped(InputThread(k).frameTable.category, map)

\* C3: every entry in the translation table's domain is replaced by its
\* mapped value and null entries of the nullable column stay null; an
\* entry outside the domain makes the merge throw an error that names that
\* index, and nothing is returned.
C3_RemapTotality ==
  /\ pc = "done" =>
       \A k \in 1..NumInputs :
         LET map == translationMapsForCategories[k]
             out == OutputThread(k)
             in == InputThread(k)
         IN /\ FirstUnmappedOfInput(k) = null
            /\ out.stackTable.category =
                 [j \in 1..Len(in.stackTable.category) |->
                    map[in.stackTable.category[j]]]
            /\ \A j \in 1..Len(in.frameTable.category) :
                 IF in.frameTable.category[j] = null
                 THEN out.frameTable.category[j] = null
                 ELSE out.frameTable.category[j]
                        = Num(map[in.frameTable.category[j][2]])
  /\ (pc = "threw" /\ error.name = "CategoryNotFound") =>
       /\ returned = null
       /\ Num(error.index) = FirstUnmappedOfInput(i + 1)
       /\ error.message =
            "Category with index " \o ToString(error.index)
              \o " hasn't been found in the translation map."

\* C3 witness: the merge threw on an index missing from the table, after
\* an earlier input had been remapped.
C3_Witness ==
  /\ pc = "threw"
  /\ error.name = "CategoryNotFound"
  /\ i = 1
  /\ error.index = MaxCats + 1

\* C3 witness, success case: a null frame entry went through a merge in
\* which other entries were renumbered.
C3_WitnessMapped ==
  /\ pc = "done"
  /\ NumInputs = 2
  /\ OutputThread(2).frameTable.category[1] = null
  /\ OutputThread(2).stackTable.category # InputThread(2).stackTable.category

----------------------------------------------------------------------------
(* C4 *)

\* Whether thread out is thread in with every time-bearing field shifted by
\* the integer offset: the times of out's samples and markers are times of
\* in plus the offset, and null end times stay null (unregisterTime may
\* also have been set when both end times were null)
ShiftedBy(in, out, offset) ==
  /\ out.registerTime = Num(in.registerTime[2] + offset)
  /\ out.processStartupTime = Num(in.processStartupTime[2] + offset)
  /\ IF in.processShutdownTime = null
     THEN out.processShutdownTime = null
     ELSE out.processShutdownTime = Num(in.processShutdownTime[2] + offset)
  /\ IF in.unregisterTime = null
     THEN in.processShutdownTime # null => out.unregisterTime = null
     ELSE out.unregisterTime = Num(in.unregisterTime[2] + offset)
  /\ \A j \in 1..Len(out.samples.time) :
       \E m \in 1..Len(in.samples.time) :
         out.samples.time[j] = Num(in.samples.time[m][2] + offset)
  /\ \A j \in 1..Len(out.markers.time) :
       \E m \in 1..Len(in.markers.time) :
         out.markers.time[j] = Num(in.markers.time[m][2] + offset)

\* Whether the k-th output thread starts at 0 and is its input thread
\* shifted by one offset
StartsAtZero(k) ==
  LET out == OutputThread(k)
      in == InputThread(k)
  IN /\ Len(out.samples.time) > 0 => out.samples.time[1] = Num(0)
     /\ IsNum(out.registerTime)
     /\ ShiftedBy(in, out, out.registerTime[2] - in.registerTime[2])

\* C4: in every thread of the merged profile the first sample's time is 0
\* and every other time-bearing field is shifted by the same offset, minus
\* the thread's first sample time after range filtering; null fields are
\* not shifted.
C4_StartAlignment ==
  pc = "done" => \A k \in 1..NumInputs : StartsAtZero(k)

\* C4, where it does hold: the threads that still have a sample after the
\* range filtering start at 0 and are shifted by one offset.
C4_StartAlignmentOfSampledThreads ==
  pc = "done" =>
    \A k \in 1..NumInputs :
      Len(OutputThread(k).samples.time) > 0 => StartsAtZero(k)

\* C4, what happens otherwise: a merged thread without samples has NaN as
\* its registerTime.
C4_NoSampleGivesNaN ==
  pc = "done" =>
    \A k \in 1..NumInputs :
      Len(OutputThread(k).samples.time) = 0 =>
        OutputThread(k).registerTime = NaN

----------------------------------------------------------------------------
(* C6 *)

\* The offset that was added to registerTime of the k-th output thread, the
\* same that the code adds to every time of the thread; it is NaN when the
\* thread has no sample after range filtering (see C4)
AppliedOffset(k) ==
  Add(OutputThread(k).registerTime, Neg(InputThread(k).registerTime))

\* The end of the active time range of a thread: its last sample time plus
\* the interval, -Infinity without samples
ActiveRangeEnd(thread, interval) ==
  IF Len(thread.samples.time) = 0 THEN NegInfinity
  ELSE Add(thread.samples.time[Len(thread.samples.time)], interval)

\* C6: a merged thread whose processShutdownTime and unregisterTime were
\* both null gets as unregisterTime the end of its own active time range,
\* computed from its samples and its own profile's interval, which is not
\* null; otherwise its unregisterTime is the original one shifted by the
\* offset, or null if it was null.
C6_EndSynthesis ==
  pc = "done" =>
    \A k \in 1..NumInputs :
      LET out == OutputThread(k)
          in == InputThread(k)
      IN IF in.processShutdownTime = null /\ in.unregisterTime = null
         THEN /\ out.unregisterTime # null
              /\ out.unregisterTime
                   = ActiveRangeEnd(out, profiles0[k].meta.interval)
         ELSE IF in.unregisterTime = null
         THEN out.unregisterTime = null
         ELSE out.unregisterTime = Add(in.unregisterTime, AppliedOffset(k))

\* C6 witness: of two merged threads from profiles of different intervals,
\* the first had no end time and got one at the end of its samples, which
\* a committed range had cropped.
C6_Witness ==
  /\ pc = "done"
  /\ NumInputs = 2
  /\ profiles0[1].meta.interval # returned.profile.meta.interval
  /\ InputThread(1).processShutdownTime = null
  /\ InputThread(1).unregisterTime = null
  /\ Len(profileStates0[1].profileSpecific.committedRanges) > 0
  /\ Len(OutputThread(1).samples.time) = 2
  /\ IsNum(OutputThread(1).unregisterTime)

\* C6 witness, other case: a merged thread had an unregisterTime, and it
\* was shifted with the samples.
C6_WitnessKept ==
  /\ pc = "done"
  /\ InputThread(1).unregisterTime # null
  /\ IsNum(OutputThread(1).unregisterTime)
  /\ OutputThread(1).unregisterTime # InputThread(1).unregisterTime

----------------------------------------------------------------------------
(* C10 *)

\* The earliest first sample time over the given threads, as an integer;
\* only used when one of them has a sample
EarliestStart(threads) ==
  LET starts == {threads[t].samples.time[1][2] :
                   t \in {u \in 1..Len(threads) :
                            Len(threads[u].samples.time) > 0}}
  IN CHOOSE x \in starts : \A y \in starts : x <= y

\* The times of the sequence that lie in [lo, hi), as integers
TimesWithin(times, lo, hi) ==
  SelectSeq([j \in 1..Len(times) |-> times[j][2]],
            LAMBDA t : lo <= t /\ t < hi)

\* C10: an input with committed ranges is cropped to the last committed
\* one, taken from zeroAt, the earliest start over all threads of its
\* profile: the output thread holds exactly the samples and markers of
\* [zeroAt + start, zeroAt + end), shifted; an input without committed
\* range keeps all its samples and markers.
C10_RangeFilter ==
  pc = "done" =>
    \A k \in 1..NumInputs :
      LET out == OutputThread(k)
          in == InputThread(k)
          ranges == profileStates0[k].profileSpecific.committedRanges
          sampled == \E t \in 1..Len(profiles0[k].threads) :
                       Len(profiles0[k].threads[t].samples.time) > 0
          zeroAt == EarliestStart(profiles0[k].threads)
          top == ranges[Len(ranges)]
          samples == TimesWithin(in.samples.time,
                       zeroAt + top.start[2], zeroAt + top.end[2])
          markers == TimesWithin(in.markers.time,
                       zeroAt + top.start[2], zeroAt + top.end[2])
      IN IF Len(ranges) = 0
         THEN /\ Len(out.samples.time) = Len(in.samples.time)
              /\ Len(out.markers.time) = Len(in.markers.time)
              /\ Len(in.samples.time) > 0 =>
                   /\ \A j \in 1..Len(in.samples.time) :
                        out.samples.time[j] =
                          Num(in.samples.time[j][2] - in.samples.time[1][2])
                   /\ \A j \in 1..Len(in.markers.time) :
                        out.markers.time[j] =
                          Num(in.markers.time[j][2] - in.samples.time[1][2])
         ELSE IF ~sampled
         THEN Len(out.samples.time) = 0 /\ Len(out.markers.time) = 0
         ELSE /\ Len(out.samples.time) = Len(samples)
              /\ Len(out.markers.time) = Len(markers)
              /\ Len(samples) > 0 =>
                   /\ \A j \in 1..Len(samples) :
                        out.samples.time[j] = Num(samples[j] - samples[1])
                   /\ \A j \in 1..Len(markers) :
                        out.markers.time[j] = Num(markers[j] - samples[1])

\* C10 witness: a thread was cropped to the second of two committed ranges,
\* counted from the start of another thread of its profile, and lost
\* samples at both ends.
C10_Witness ==
  /\ pc = "done"
  /\ Len(profileStates0[1].profileSpecific.committedRanges) = 2
  /\ Len(profiles0[1].threads[1].samples.time) > 0
  /\ Len(InputThread(1).samples.time) = 3
  /\ profiles0[1].threads[1].samples.time[1][2]
       < InputThread(1).samples.time[1][2]
  /\ Len(OutputThread(1).samples.time) = 1
  /\ Len(OutputThread(1).markers.time) = 1

----------------------------------------------------------------------------
(* C5 *)

\* C5: the thread produced for input i (0-based) has the pid
\* "<originalPid> from profile <i+1>" and the processName
\* "Profile <i+1>: <originalProcessName, or the thread name when that is
\* empty>", and the pids of the merged threads are pairwise distinct.
C5_Identity ==
  pc = "done" =>
    \A k \in 1..NumInputs :
      LET out == OutputThread(k)
          in == InputThread(k)
      IN /\ out.pid = in.pid \o " from profile " \o ToString(k)
         /\ out.processName =
              "Profile " \o ToString(k) \o ": "
                \o (IF in.processName = "" THEN in.name ELSE in.processName)
         /\ \A m \in 1..NumInputs : m # k => OutputThread(m).pid # out.pid

\* C5 witness: two inputs with the same pid were merged, one of them
\* without processName.
C5_Witness ==
  /\ pc = "done"
  /\ NumInputs = 2
  /\ InputThread(1).pid = InputThread(2).pid
  /\ InputThread(1).processName = ""
  /\ InputThread(2).processName # ""
  /\ OutputThread(1).processName = "Profile 1: GeckoMain"
  /\ OutputThread(2).pid = "1234 from profile 2"

----------------------------------------------------------------------------
(* C7 *)

\* C7: when a view-state has a null selectedThread the call throws the
\* error naming that input and returns nothing, and at that moment no
\* input has been processed: no input thread has had its categories, times
\* or pid rewritten and no committed range has been popped.
C7_FailsBeforeProcessing ==
  (pc = "threw" /\ error.name = "NoThreadSelected") =>
    /\ returned = null
    /\ profileStates0[error.index + 1].profileSpecific.selectedThread = null
    /\ error.message =
         "No thread has been selected in profile " \o ToString(error.index)
    /\ profiles = profiles0
    /\ profileStates = profileStates0

\* C7, the part that holds: the error names the first input without
\* selected thread, nothing is returned, and that input and the later ones
\* are untouched.
C7_ErrorNamesInput ==
  (pc = "threw" /\ error.name = "NoThreadSelected") =>
    /\ returned = null
    /\ profileStates0[error.index + 1].profileSpecific.selectedThread = null
    /\ \A k \in 1..error.index :
         profileStates0[k].profileSpecific.selectedThread # null
    /\ error.message =
         "No thread has been selected in profile " \o ToString(error.index)
    /\ \A k \in (error.index + 1)..NumInputs :
         profiles[k] = profiles0[k] /\ profileStates[k] = profileStates0[k]

----------------------------------------------------------------------------
(* C8 *)

\* C8: the interval of the merged profile is the minimum of the intervals
\* of the input profiles (intervals are counted in half milliseconds: 2
\* and 1 give 1).
C8_IntervalIsMinimum ==
  (pc = "done" /\ Len(profiles0) > 0) =>
    LET interval == returned.profile.meta.interval
    IN /\ IsNum(interval)
       /\ \A k \in 1..Len(profiles0) :
            interval[2] <= profiles0[k].meta.interval[2]
       /\ \E k \in 1..Len(profiles0) : interval = profiles0[k].meta.interval

\* C8 witness: profiles of intervals 2 and 1, in this order, were merged.
C8_Witness ==
  /\ pc = "done"
  /\ Len(profiles0) = 2
  /\ profiles0[1].meta.interval = Num(2)
  /\ profiles0[2].meta.interval = Num(1)
  /\ returned.profile.meta.interval = Num(1)

----------------------------------------------------------------------------
(* C9 *)

\* C9: a successful merge of N inputs returns N threads, the i-th of them
\* made from the selected thread of input i, with the transform stack of
\* that thread under key i and the implementation filter of input i at
\* position i.
C9_InputOrder ==
  pc = "done" =>
    /\ Len(returned.profile.threads) = NumInputs
    /\ Len(returned.implementationFilters) = NumInputs
    /\ DOMAIN returned.transformStacks = 0..(NumInputs - 1)
    /\ \A k \in 1..NumInputs :
         LET selected ==
               profileStates0[k].profileSpecific.selectedThread[2] + 1
         IN /\ OutputThread(k).name = InputThread(k).name
            /\ OutputThread(k).pid
                 = InputThread(k).pid \o " from profile " \o ToString(k)
            /\ Len(OutputThread(k).samples.time)
                 = Len(InputThread(k).samples.time)
            /\ returned.transformStacks[k - 1]
                 = profileStates0[k].profileSpecific.transforms[selected]
            /\ returned.implementationFilters[k]
                 = profileStates0[k].profileSpecific.implementation

\* C9 witness: two inputs that differ in the selected thread, the pid and
\* the implementation filter were merged.
C9_Witness ==
  /\ pc = "done"
  /\ NumInputs = 2
  /\ InputThread(1).name # InputThread(2).name
  /\ InputThread(1).pid # InputThread(2).pid
  /\ profileStates0[1].profileSpecific.selectedThread = Num(1)
  /\ returned.implementationFilters[1] # returned.implementationFilters[2]

----------------------------------------------------------------------------
(* C11 *)

\* Whether view-state k is as it was when the call was made
ViewStateUntouched(k) == profileStates[k] = profileStates0[k]

\* Whether view-state k is as it was when the call was made, except that
\* committedRanges has lost its last entry if it had one
ViewStateConsumed(k) ==
  LET now == profileStates[k].profileSpecific
      before == profileStates0[k].profileSpecific
  IN /\ now.selectedThread = before.selectedThread
     /\ now.transforms = before.transforms
     /\ now.implementation = before.implementation
     /\ IF Len(before.committedRanges) = 0
        THEN now.committedRanges = before.committedRanges
        ELSE /\ Len(now.committedRanges) = Len(before.committedRanges) - 1
             /\ \A j \in 1..Len(now.committedRanges) :
                  now.committedRanges[j] = before.committedRanges[j]

\* C11: after a merge every view-state has lost exactly the top entry of
\* its committedRanges when it had one and has the same committedRanges
\* when it had none, and its selectedThread, transforms and implementation
\* filter are unchanged; while the merge runs, the view-states of the
\* inputs not yet processed are as they were.
C11_ViewStateFrame ==
  /\ Len(profileStates) = Len(profileStates0)
  /\ pc = "done" => \A k \in 1..NumInputs : ViewStateConsumed(k)
  /\ pc \in {"loop", "threw"} =>
       \A k \in 1..NumInputs :
         IF k <= i THEN ViewStateConsumed(k) ELSE ViewStateUntouched(k)
  /\ pc = "start" => \A k \in 1..NumInputs : ViewStateUntouched(k)

\* C11 witness: a merge of two inputs has returned; the first view-state
\* had two committed ranges and is left with the older one, the second had
\* none.
C11_Witness ==
  /\ pc = "done"
  /\ NumInputs = 2
  /\ Len(profileStates0[1].profileSpecific.committedRanges) = 2
  /\ profileStates[1].profileSpecific.committedRanges
       = <<profileStates0[1].profileSpecific.committedRanges[1]>>
  /\ Len(profileStates0[2].profileSpecific.committedRanges) = 0
  /\ profileStates[2] = profileStates0[2]

====
